---------------------------- MODULE Spec2Model ----------------------------
(***************************************************************************)
(* A model of the sync engine of controller/sync.go: SyncAppState, sync,   *)
(* generateSyncTasks with its kindSorter, doApplySync with its prune wave  *)
(* and its per-kind apply waves, and setResourceDetails.                   *)
(***************************************************************************)
EXTENDS Integers, Sequences, FiniteSets, TLC

(***************************************************************************)
(* Bounds of the model.                                                    *)
(***************************************************************************)
\* longest resource list handed to generateSyncTasks under SortSpec
MaxSortLen == 3
\* largest number of resources of one operation under Spec
MaxTasks == 3
\* largest number of SyncAppState invocations on one OperationState
MaxInvocations == 3
\* longest list of parameter overrides under AutoSpec
MaxOverrides == 2

VARIABLES
    resources,      \* the ResourceStates CompareAppState returns at this moment;
                    \* an invocation takes them as its syncContext.resources
    syncOp,         \* state.Operation.Sync (hasSync = FALSE: Operation.Sync == nil)
    proj,           \* the project's policy: the (group, kind, namespaced) it denies
    head,           \* the commit a symbolic revision resolves to right now
    opState,        \* OperationState: phase, message and the SyncResult
    pc,             \* position of the SyncAppState call ("idle": not running)
    pass,           \* arguments of the running doApplySync: dryRun, update
    syncTasks,      \* the sorted task list of the running invocation
    gs,             \* per task: position and resDetails of its goroutine
    grp,            \* index in createTasks of the first task not yet grouped
    syncSuccessful, \* doApplySync's syncSuccessful
    lock,           \* sc.lock: 0 when free, else the task index of the holder
    applyCalls,     \* ApplyResource calls issued: <<task, dryRun>>
    deleteCalls,    \* DeleteResource calls issued: task
    ret,            \* what the doApplySync calls of this invocation returned
    history,        \* revisions written by persistDeploymentInfo
    invocations,    \* number of SyncAppState invocations so far
    count,          \* over the operation: CompareAppState calls, invocations that
                    \* ran the dry-run pass, invocations that ran the real pass
    auto,           \* autoSync: the Application it is given and what it did
    diff            \* Diff: the two objects it is given and what it reported

vars == <<resources, syncOp, proj, head, opState, pc, pass, syncTasks, gs, grp,
          syncSuccessful, lock, applyCalls, deleteCalls, ret, history, invocations,
          count, auto, diff>>

(***************************************************************************)
(* Sync tasks.  A task with prune = TRUE has a nil targetObj and the       *)
(* fields describe its liveObj; otherwise they describe its targetObj.     *)
(* crdGroup/crdKind are spec.group and spec.names.kind of a CRD manifest.  *)
(***************************************************************************)
Task(prune, group, kind, name, ns, hook, crdGroup, crdKind) ==
    [prune |-> prune, group |-> group, kind |-> kind, name |-> name, ns |-> ns,
     hook |-> hook, crdGroup |-> crdGroup, crdKind |-> crdKind]

Target(group, kind, name) == Task(FALSE, group, kind, name, "n1", FALSE, "", "")

\* Go compares strings bytewise: the strings of the model in that order
StrOrder == <<"", "Bar", "ConfigMap", "CustomResourceDefinition", "Deployment",
              "Foo", "Job", "Namespace", "a", "b", "c", "f", "h">>

StrIndex(s) == CHOOSE i \in 1..Len(StrOrder) : StrOrder[i] = s

StrLess(x, y) == StrIndex(x) < StrIndex(y)

resourceOrder ==
    <<"Namespace", "ResourceQuota", "LimitRange", "PodSecurityPolicy", "Secret",
      "ConfigMap", "StorageClass", "PersistentVolume", "PersistentVolumeClaim",
      "ServiceAccount", "CustomResourceDefinition", "ClusterRole",
      "ClusterRoleBinding", "Role", "RoleBinding", "Service", "DaemonSet", "Pod",
      "ReplicationController", "ReplicaSet", "Deployment", "StatefulSet", "Job",
      "CronJob", "Ingress", "APIService">>

KnownKinds == {resourceOrder[i] : i \in 1..Len(resourceOrder)}

\* newKindSorter: o[k] = v, the 0-based position of kind k
OrderingOk(kind) == kind \in KnownKinds

\* k.ordering[kind]: a missing key reads as the zero value 0
OrderingOf(kind) ==
    IF kind \in KnownKinds
    THEN (CHOOSE i \in 1..Len(resourceOrder) : resourceOrder[i] = kind) - 1
    ELSE 0

\* kindSorter.Less on the tasks a = manifests[i], b = manifests[j]
Less(a, b) ==
    IF a.prune THEN FALSE
    ELSE IF b.prune THEN TRUE
    ELSE LET first  == OrderingOf(a.kind)
             aok    == OrderingOk(a.kind)
             second == OrderingOf(b.kind)
             bok    == OrderingOk(b.kind)
         IN  IF first = second
             THEN IF ~aok /\ ~bok /\ a.kind # b.kind
                  THEN StrLess(a.kind, b.kind)
                  ELSE StrLess(a.name, b.name)
             ELSE IF ~aok THEN FALSE
             ELSE IF ~bok THEN TRUE
             ELSE first < second

Swap(s, i, j) == [s EXCEPT ![i] = s[j], ![j] = s[i]]

\* sort.Sort on at most 6 elements is insertionSort(data, 0, n):
\*   for i := a+1; i < b; i++ { for j := i; j > a && Less(j, j-1); j-- { Swap(j, j-1) } }
RECURSIVE InsertDown(_, _)
InsertDown(s, j) ==
    IF j > 1 /\ Less(s[j], s[j - 1]) THEN InsertDown(Swap(s, j, j - 1), j - 1) ELSE s

RECURSIVE InsertionSort(_, _)
InsertionSort(s, i) ==
    IF i > Len(s) THEN s ELSE InsertionSort(InsertDown(s, i), i + 1)

SortTasks(s) == InsertionSort(s, 2)

\* argo.ContainsSyncResource(name, gvk, syncResources)
ContainsSyncResource(t, rr) ==
    \E r \in rr : r.kind = t.kind /\ r.group = t.group /\ r.name = t.name

\* generateSyncTasks: filter by syncResources (nil: no filter), then sort.
\* selector is [isNil |-> BOOLEAN, items |-> set of [group, kind, name]].
RECURSIVE FilterTasks(_, _)
FilterTasks(rs, selector) ==
    IF rs = <<>> THEN <<>>
    ELSE LET rest == FilterTasks(Tail(rs), selector)
         IN  IF selector.isNil \/ ContainsSyncResource(Head(rs), selector.items)
             THEN <<Head(rs)>> \o rest
             ELSE rest

generateSyncTasks(rs, selector) == SortTasks(FilterTasks(rs, selector))

(***************************************************************************)
(* Sequences without repetition over a set, up to length n.                *)
(***************************************************************************)
RECURSIVE SeqsUpTo(_, _)
SeqsUpTo(S, n) ==
    IF n = 0 THEN {<<>>}
    ELSE LET shorter == SeqsUpTo(S, n - 1)
         IN  shorter \cup
             {Append(s, x) : <<s, x>> \in
                 {p \in shorter \X S :
                     /\ Len(p[1]) = n - 1
                     /\ \A k \in 1..Len(p[1]) : p[1][k] # p[2]}}

NoSelector == [isNil |-> TRUE, items |-> {}]

(***************************************************************************)
(* Values of the operation state.                                          *)
(***************************************************************************)
NonTerminal == {"Running", "Terminating"}

\* OperationPhase.Completed
Completed(phase) == phase \in {"Succeeded", "Failed", "Error"}

\* OperationPhase.Successful
PhaseSuccessful(phase) == phase = "Succeeded"

\* ResourceSyncStatus.Successful
StatusSuccessful(status) == status # "SyncFailed"

\* app.Spec.Destination.Namespace
AppNamespace == "n1"

NoDet == [kind |-> "", name |-> "", ns |-> "", status |-> "", message |-> <<>>]

Det(kind, name, ns, status, message) ==
    [kind |-> kind, name |-> name, ns |-> ns, status |-> status, message |-> message]

NoPass == [dryRun |-> FALSE, update |-> FALSE, caller |-> "none"]

\* lookup: how the comparison and the cluster, client and project lookups of
\* the invocation went; dry, real: what its doApplySync calls returned
\* compare: the arguments of its CompareAppState call, <<>> without a call
NoRet == [dry |-> "none", real |-> "none", lookup |-> "none", compare |-> <<>>]

NoCount == [compare |-> 0, dry |-> 0, real |-> 0]

\* the Application of an operation that autoSync has no part in
NoAuto == [state |-> "none"]

\* the objects of an operation that Diff has no part in
NoDiff == [state |-> "none"]

Commits == {"c1", "c2"}

\* the manifest service: a commit resolves to itself, anything else to the head
Resolve(revision, hd) == IF revision \in Commits THEN revision ELSE hd

\* AppProject.IsResourcePermitted(GroupKind, namespaced)
IsResourcePermitted(p, group, kind, namespaced) == <<group, kind, namespaced>> \notin p

\* serverRes.Namespaced as the cluster's discovery reports it
Namespaced(kind) == kind \notin {"Namespace", "CustomResourceDefinition"}

\* kube.IsCRD
IsCRD(t) == ~t.prune /\ t.kind = "CustomResourceDefinition" /\ t.group = "apiextensions.k8s.io"

\* isHook
isHook(t) == t.hook

hasCRDOfGroupKind(tasks, group, kind) ==
    \E k \in 1..Len(tasks) :
        /\ ~tasks[k].prune
        /\ IsCRD(tasks[k])
        /\ tasks[k].crdGroup # "" /\ tasks[k].crdKind # ""
        /\ group = tasks[k].crdGroup /\ tasks[k].crdKind = kind

startedPreSyncPhase(st) == Len(st.resources) > 0 \/ st.hooks # {}

startedSyncPhase(st) ==
    Len(st.resources) > 0 \/ st.hooks \cap {"Sync", "PostSync"} # {}

setOperationPhase(st, phase, message) == [st EXCEPT !.phase = phase, !.message = message]

\* a setResourceDetails that appends without looking for an existing entry
setResourceDetailsAppendOnly(rs, det) == Append(rs, det)

\* the scan of setResourceDetails: the first entry with the kind and name of det
Matches(res, det) == res.kind = det.kind /\ res.name = det.name

\* setResourceDetails on the list rs: update the first match in place, else append
setResourceDetails(rs, det) ==
    IF \E k \in 1..Len(rs) : Matches(rs[k], det)
    THEN LET k == CHOOSE k \in 1..Len(rs) :
                      Matches(rs[k], det) /\ \A m \in 1..(k - 1) : ~Matches(rs[m], det)
         IN  [rs EXCEPT ![k] = det]
    ELSE Append(rs, det)

\* createTasks / pruneTasks of doApplySync, as indices into syncTasks
Indices(tasks) == [k \in 1..Len(tasks) |-> k]
IsCreate(tasks, k) == ~tasks[k].prune
CreateIdx(tasks) == SelectSeq(Indices(tasks), LAMBDA k : IsCreate(tasks, k))
PruneIdx(tasks) == {k \in 1..Len(tasks) : tasks[k].prune}

\* the grouping loop: the group starting at position g of createTasks runs up
\* to the last consecutive task with the kind of its first task
GroupEnd(tasks, g) ==
    LET ci == CreateIdx(tasks)
    IN  CHOOSE e \in g..Len(ci) :
            /\ \A k \in g..e : tasks[ci[k]].kind = tasks[ci[g]].kind
            /\ (e < Len(ci) => tasks[ci[e + 1]].kind # tasks[ci[g]].kind)

GroupOf(tasks, g) == {CreateIdx(tasks)[k] : k \in g..GroupEnd(tasks, g)}

\* pruneObject without the cluster call (prune false, or a dry run)
pruneObjectLocal(t, prune) ==
    IF prune
    THEN Det(t.kind, t.name, t.ns, "SyncedAndPruned", <<"pruned (dry run)">>)
    ELSE Det(t.kind, t.name, t.ns, "PruningRequired", <<"ignored (requires pruning)">>)

\* a pruneObject that forgets the dry run
pruneDeletesIgnoringDryRun(prune, dryRun) == prune

\* pruneObject deletes iff prune is true and dryRun is false
pruneDeletes(prune, dryRun) == prune /\ ~dryRun

\* pruneObject after DeleteResource returned
pruneObjectResult(t, ok) ==
    IF ok
    THEN Det(t.kind, t.name, t.ns, "SyncedAndPruned", <<"pruned">>)
    ELSE Det(t.kind, t.name, t.ns, "SyncFailed", <<"delete failed", t.group, t.kind, t.name>>)

\* applyObject after ApplyResource returned
applyObjectResult(t, dryRun, ok) ==
    IF ok
    THEN Det(t.kind, t.name, AppNamespace, "Synced",
             <<IF dryRun THEN "applied (dry run)" ELSE "applied", t.group, t.kind, t.name>>)
    ELSE Det(t.kind, t.name, AppNamespace, "SyncFailed",
             <<"apply failed", t.group, t.kind, t.name>>)

\* a processCreateTasks that records nothing for a failed group
FailGroupUnrecorded(rs, tasks, idxs, message) == rs

\* the loop of processCreateTasks that fails every task of a group
RECURSIVE FailGroup(_, _, _, _)
FailGroup(rs, tasks, idxs, message) ==
    IF idxs = <<>> THEN rs
    ELSE LET t == tasks[Head(idxs)]
         IN  FailGroup(setResourceDetails(rs,
                           Det(t.kind, t.name, AppNamespace, "SyncFailed", message)),
                       tasks, Tail(idxs), message)

GroupSeq(tasks, g) == SubSeq(CreateIdx(tasks), g, GroupEnd(tasks, g))

\* lookup: what ServerResourceForGroupVersionKind returned for the task's
\* group; disco: what processCreateTasks did with the group
NewGoroutine ==
    [pc |-> "idle", det |-> NoDet, called |-> FALSE, disco |-> "none", lookup |-> "none"]

(***************************************************************************)
(* The resources, operations and projects the model draws from.            *)
(***************************************************************************)
dApps == Target("apps", "Deployment", "a")
dExt == Target("extensions", "Deployment", "a")
cmB == Target("", "ConfigMap", "b")
hookJob == Task(FALSE, "batch", "Job", "h", "n1", TRUE, "", "")
crdFoo == Task(FALSE, "apiextensions.k8s.io", "CustomResourceDefinition", "c", "",
               FALSE, "foo.io", "Foo")
fooF == Target("foo.io", "Foo", "f")
pruneDep == Task(TRUE, "apps", "Deployment", "a", "n2", FALSE, "", "")
pruneCm == Task(TRUE, "", "ConfigMap", "c", "n1", FALSE, "", "")

\* the resources in the order the comparison lists them
ObjOrder == <<fooF, dApps, pruneDep, dExt, hookJob, cmB, pruneCm, crdFoo>>

ResourceLists ==
    {SelectSeq(ObjOrder, LAMBDA t : t \in S) :
        S \in {S \in SUBSET {ObjOrder[k] : k \in 1..Len(ObjOrder)} : Cardinality(S) <= MaxTasks}}

Selectors ==
    {NoSelector,
     [isNil |-> FALSE, items |-> {}],
     [isNil |-> FALSE, items |-> {[group |-> "apps", kind |-> "Deployment", name |-> "a"]}]}

\* SyncStrategy: nil (defaulted to Hook by sync()), Apply, or neither field set
Strategies == {"nil", "apply", "unknown"}

\* SyncOperation.ParameterOverrides: none, or one component parameter
NoOverrides == <<>>

OneOverride == <<[component |-> "a", name |-> "image", value |-> "1"]>>

NoSyncOp ==
    [hasSync |-> FALSE, revision |-> "", prune |-> FALSE, dryRun |-> FALSE,
     strategy |-> "nil", selector |-> NoSelector, overrides |-> NoOverrides]

\* the operations: every combination of the flags without overrides, and the
\* plain hook-strategy sync of everything with an override
SyncOps ==
    {NoSyncOp} \cup
    [hasSync : {TRUE}, revision : {"HEAD"}, prune : BOOLEAN, dryRun : BOOLEAN,
     strategy : Strategies, selector : Selectors, overrides : {NoOverrides}] \cup
    [hasSync : {TRUE}, revision : {"HEAD"}, prune : {FALSE}, dryRun : {FALSE},
     strategy : {"nil"}, selector : {NoSelector}, overrides : {OneOverride}]

Projects == {{}, {<<"extensions", "Deployment", TRUE>>}}

NewOpState ==
    [phase |-> "Running", message |-> "", revision |-> "", resources |-> <<>>, hooks |-> {}]

Init ==
    /\ resources \in ResourceLists
    /\ syncOp \in SyncOps
    /\ proj \in Projects
    /\ head = "c1"
    /\ opState = NewOpState
    /\ pc = "idle"
    /\ pass = NoPass
    /\ syncTasks = <<>>
    /\ gs = <<>>
    /\ grp = 0
    /\ syncSuccessful = TRUE
    /\ lock = 0
    /\ applyCalls = {}
    /\ deleteCalls = {}
    /\ ret = NoRet
    /\ history = <<>>
    /\ invocations = 0
    /\ count = NoCount
    /\ auto = NoAuto
    /\ diff = NoDiff

(***************************************************************************)
(* The main thread of SyncAppState.                                        *)
(***************************************************************************)
MainSet(st, p, ps, tasks, g, gr, ok) ==
    /\ opState' = st
    /\ pc' = p
    /\ pass' = ps
    /\ syncTasks' = tasks
    /\ gs' = g
    /\ grp' = gr
    /\ syncSuccessful' = ok

\* an early return of SyncAppState, before the sync context exists
ReturnEarly(st) == MainSet(st, "idle", NoPass, <<>>, <<>>, 0, TRUE)

\* a history write that takes any completed phase for a success
ShouldPersistAnyCompleted(op, phase) ==
    ~op.dryRun /\ op.selector.items = {} /\ Completed(phase)

\* the condition of the history write after sync() or terminate() returned
ShouldPersist(op, phase) ==
    ~op.dryRun /\ op.selector.items = {} /\ PhaseSuccessful(phase)

\* sync() or terminate() returned: on to the history write, or out
EndSync(st) ==
    MainSet(st, IF ShouldPersist(syncOp, st.phase) THEN "persist" ELSE "idle",
            NoPass, <<>>, <<>>, 0, TRUE)

\* doApplySync(tasks, dryRun, force, update) starts: the prune goroutines are spawned
StartDoApply(st, tasks, dryRun, update, caller) ==
    MainSet(st, "prune", [dryRun |-> dryRun, update |-> update, caller |-> caller],
            tasks,
            [k \in 1..Len(tasks) |->
                IF tasks[k].prune THEN [NewGoroutine EXCEPT !.pc = "ready"]
                ELSE NewGoroutine],
            1, TRUE)

\* doHookSync, reduced to the phases the result list shows: the apply pass of
\* the non-hook tasks when the Sync phase has not started, then the hooks
HookSync(st, tasks) ==
    \E hooksOk \in BOOLEAN :
        IF ~hooksOk
        THEN EndSync(setOperationPhase(st, "Error", "failed to generate hooks resources"))
        ELSE IF ~startedSyncPhase(st)
             THEN StartDoApply(st, tasks, FALSE, TRUE, "hook")
             ELSE \E out \in {"Running", "Succeeded", "Failed"} :
                     EndSync([setOperationPhase(st, out,
                                 IF out = "Succeeded" THEN "successfully synced"
                                 ELSE IF out = "Failed" THEN "hook failed"
                                 ELSE st.message)
                              EXCEPT !.hooks = st.hooks \cup {"PostSync"}])

\* sync() from the strategy switch on
Strategy(st, tasks) ==
    IF syncOp.strategy = "apply"
    THEN IF ~startedSyncPhase(st)
         THEN StartDoApply(st, tasks, FALSE, TRUE, "sync")
         ELSE EndSync(setOperationPhase(st, "Succeeded", "successfully synced"))
    ELSE IF syncOp.strategy = "nil"
         THEN HookSync(st, tasks)
         ELSE EndSync(setOperationPhase(st, "Failed", "Unknown sync strategy"))

\* sync()
Sync(st) ==
    \E unmarshal \in {"ok", "live", "target"} :
        LET tasks == generateSyncTasks(resources, syncOp.selector)
        IN  IF unmarshal = "live"
            THEN EndSync(setOperationPhase(st, "Error", "Failed to unmarshal live object"))
            ELSE IF unmarshal = "target"
            THEN EndSync(setOperationPhase(st, "Error", "Failed to unmarshal target object"))
            ELSE IF Len(tasks) = 0
            THEN EndSync(setOperationPhase(st, "Succeeded", "successfully synced (no manifests)"))
            ELSE IF ~startedPreSyncPhase(st)
            THEN StartDoApply(st, tasks, TRUE, syncOp.dryRun, "sync")
            ELSE Strategy(st, tasks)

\* terminate(): best-effort deletion of the running hooks, then Failed
Terminate(st) == EndSync(setOperationPhase(st, "Failed", "Operation terminated"))

\* a SyncAppState that forgets the remembered commit
CompareRevisionOfRequest(st, op) == op.revision

\* the revision handed to CompareAppState
CompareRevision(st, op) == IF st.revision = "" THEN op.revision ELSE st.revision

\* CompareAppState(app, revision, overrides): the revision and the overrides
CompareArgs(st, op) ==
    [revision |-> CompareRevision(st, op), overrides |-> op.overrides]

\* a lookup failure reported as a failed operation
LookupErrorAsFailed(st, message) == [st EXCEPT !.phase = "Failed", !.message = message]

\* the early returns on a failed comparison or lookup: state.Phase = OperationError
LookupError(st, message) == [st EXCEPT !.phase = "Error", !.message = message]

\* the outcomes of CompareAppState (an error, an error-level condition) and
\* of GetCluster, the two client constructors and GetAppProject
Lookups == {"ok", "compare", "condition", "cluster", "dynamic", "discovery", "project"}

ComparatorFailures == {"compare", "condition"}

LookupMessage(lookup) ==
    CASE lookup = "compare" -> "compare failed"
      [] lookup = "condition" -> "error condition"
      [] lookup = "cluster" -> "cluster not found"
      [] lookup = "dynamic" -> "Failed to initialize dynamic client"
      [] lookup = "discovery" -> "Failed to initialize discovery client"
      [] lookup = "project" -> "Failed to load application project"
      [] OTHER -> ""

\* a SyncAppState that takes the sync path whatever the phase
TerminatesNever(st) == FALSE

\* the branch between syncCtx.terminate() and syncCtx.sync()
Terminates(st) == st.phase = "Terminating"

\* a SyncAppState that compares on the first entry only
CompareCalledOnFirstEntry(c, op) == op.hasSync /\ c.compare = 0

\* whether the invocation calls CompareAppState: always, once past the
\* Operation.Sync == nil return
CompareCalled(c, op) == op.hasSync

\* the counters stop at the bound of the invocations
Inc(n) == IF n < MaxInvocations THEN n + 1 ELSE n

\* the counters after a step that ends with the main thread at p in pass ps
CountPass(c, p, ps) ==
    IF p # "prune" THEN c
    ELSE IF ps.dryRun THEN [c EXCEPT !.dry = Inc(@)]
    ELSE [c EXCEPT !.real = Inc(@)]

\* SyncAppState from its entry to the first blocking step of sync()
SyncAppStateCall ==
    /\ pc = "idle"
    /\ opState.phase \in NonTerminal
    /\ UNCHANGED <<resources, syncOp, proj, head, lock, applyCalls, deleteCalls, history,
                   auto, diff>>
    /\ IF ~syncOp.hasSync
       THEN /\ ret' = NoRet
            /\ ReturnEarly([opState EXCEPT
                   !.phase = "Failed",
                   !.message = "Invalid operation request: no operation specified"])
       ELSE \E lookup \in Lookups :
            /\ ret' = [NoRet EXCEPT !.lookup = lookup,
                                  !.compare = <<CompareArgs(opState, syncOp)>>]
            /\ LET st == [opState EXCEPT
                             !.revision = Resolve(CompareRevision(opState, syncOp), head)]
               IN  IF lookup \in ComparatorFailures
                   THEN ReturnEarly(LookupError(opState, LookupMessage(lookup)))
                   ELSE IF lookup # "ok"
                   THEN ReturnEarly(LookupError(st, LookupMessage(lookup)))
                   ELSE IF Terminates(st)
                   THEN Terminate(st)
                   ELSE Sync(st)
    /\ count' = CountPass([count EXCEPT !.compare =
                              IF CompareCalled(count, syncOp) THEN Inc(@) ELSE @],
                          pc', pass')

\* one invocation by the caller, which re-invokes while the phase is not terminal
SyncAppState ==
    /\ invocations < MaxInvocations
    /\ invocations' = invocations + 1
    /\ SyncAppStateCall

(***************************************************************************)
(* doApplySync: the prune wave.                                            *)
(***************************************************************************)
EnvUnchanged == UNCHANGED <<resources, syncOp, proj, head, history, invocations, count, auto, diff>>

\* a prune goroutine runs pruneObject up to its DeleteResource call, if any
PruneObject(i) ==
    /\ pc = "prune"
    /\ i \in PruneIdx(syncTasks)
    /\ gs[i].pc = "ready"
    /\ IF pruneDeletes(syncOp.prune, pass.dryRun)
       THEN /\ gs' = [gs EXCEPT ![i].pc = "calling", ![i].called = TRUE]
            /\ deleteCalls' = deleteCalls \cup {syncTasks[i]}
       ELSE /\ gs' = [gs EXCEPT ![i].pc = "returned",
                                ![i].det = pruneObjectLocal(syncTasks[i], syncOp.prune)]
            /\ UNCHANGED deleteCalls
    /\ UNCHANGED <<opState, pc, pass, syncTasks, grp, syncSuccessful, lock, applyCalls, ret>>
    /\ EnvUnchanged

\* a goroutine that stores its own outcome in syncSuccessful
FlagLastOutcome(flag, det) == StatusSuccessful(det.status)

\* if !resDetails.Status.Successful() { syncSuccessful = false }: the only
\* value a goroutine writes is false
FlagFailure(flag, det) == flag /\ StatusSuccessful(det.status)

\* DeleteResource returns; the goroutine flags a failure
DeleteReturn(i) ==
    /\ pc = "prune"
    /\ i \in PruneIdx(syncTasks)
    /\ gs[i].pc = "calling"
    /\ \E ok \in BOOLEAN :
        LET det == pruneObjectResult(syncTasks[i], ok)
        IN  /\ gs' = [gs EXCEPT ![i].pc = "returned", ![i].det = det]
            /\ syncSuccessful' = FlagFailure(syncSuccessful, det)
    /\ UNCHANGED <<opState, pc, pass, syncTasks, grp, lock, applyCalls, deleteCalls, ret>>
    /\ EnvUnchanged

\* a goroutine that records failures only, whatever update is
RecordsFailuresOnly(update, det) == ~StatusSuccessful(det.status)

\* whether a goroutine with outcome det records it
Records(update, det) == update \/ ~StatusSuccessful(det.status)

\* a sc.lock.Lock() that never waits
LockNeverWaits(l) == TRUE

\* sc.lock.Lock() returns when no goroutine holds the lock
LockReturns(l) == l = 0

\* a goroutine with its outcome enters setResourceDetails (sc.lock.Lock), or ends
Record(i) ==
    /\ pc \in {"prune", "apply"}
    /\ i \in 1..Len(gs)
    /\ gs[i].pc = "returned"
    /\ IF Records(pass.update, gs[i].det)
       THEN /\ LockReturns(lock)
            /\ lock' = i
            /\ gs' = [gs EXCEPT ![i].pc = "locked"]
       ELSE /\ gs' = [gs EXCEPT ![i].pc = "done"]
            /\ UNCHANGED lock
    /\ UNCHANGED <<opState, pc, pass, syncTasks, grp, syncSuccessful, applyCalls,
                   deleteCalls, ret>>
    /\ EnvUnchanged

\* the scan and update of setResourceDetails under the lock, and the unlock
SetResourceDetails(i) ==
    /\ pc \in {"prune", "apply"}
    /\ i \in 1..Len(gs)
    /\ gs[i].pc = "locked"
    /\ lock = i
    /\ opState' = [opState EXCEPT !.resources = setResourceDetails(@, gs[i].det)]
    /\ lock' = 0
    /\ gs' = [gs EXCEPT ![i].pc = "done"]
    /\ UNCHANGED <<pc, pass, syncTasks, grp, syncSuccessful, applyCalls, deleteCalls, ret>>
    /\ EnvUnchanged

\* a doApplySync without wg.Wait()
PruneWaveNotAwaited(g, tasks) == TRUE

\* wg.Wait(): every prune goroutine has ended
PruneWaveDone(g, tasks) == \A k \in PruneIdx(tasks) : g[k].pc = "done"

PruneWait ==
    /\ pc = "prune"
    /\ PruneWaveDone(gs, syncTasks)
    /\ pc' = "groups"
    /\ UNCHANGED <<opState, pass, syncTasks, gs, grp, syncSuccessful, lock, applyCalls,
                   deleteCalls, ret>>
    /\ EnvUnchanged

(***************************************************************************)
(* doApplySync: the kind groups.                                           *)
(***************************************************************************)
\* the group and kind processCreateTasks checks: those of the group's first task
GroupGVK(tasks, g) == tasks[CreateIdx(tasks)[g]]

SetDisco(g, idxs, d, l) ==
    [k \in 1..Len(g) |->
        IF k \in idxs THEN [g[k] EXCEPT !.disco = d, !.lookup = l] ELSE g[k]]

\* processCreateTasks up to the start of the group's goroutines
ProcessCreateTasks ==
    /\ pc = "groups"
    /\ grp <= Len(CreateIdx(syncTasks))
    /\ LET first == GroupGVK(syncTasks, grp)
           idxs  == GroupOf(syncTasks, grp)
           next  == GroupEnd(syncTasks, grp) + 1
           createTasks == SelectSeq(syncTasks, LAMBDA t : ~t.prune)
       IN  \E disco \in {"ok", "notfound", "err"} :
            IF disco # "ok"
            THEN IF pass.dryRun /\ disco = "notfound"
                    /\ hasCRDOfGroupKind(createTasks, first.group, first.kind)
                 THEN /\ gs' = SetDisco(gs, idxs, "skipped", disco)
                      /\ grp' = next
                      /\ UNCHANGED <<opState, pc, syncSuccessful>>
                 ELSE /\ syncSuccessful' = FALSE
                      /\ opState' = [opState EXCEPT !.resources =
                            FailGroup(@, syncTasks, GroupSeq(syncTasks, grp),
                                      <<IF disco = "notfound" THEN "not found"
                                        ELSE "discovery failed", first.group, first.kind>>)]
                      /\ gs' = SetDisco(gs, idxs, "failed", disco)
                      /\ grp' = next
                      /\ UNCHANGED pc
            ELSE IF ~IsResourcePermitted(proj, first.group, first.kind, Namespaced(first.kind))
                 THEN /\ syncSuccessful' = FALSE
                      /\ opState' = [opState EXCEPT !.resources =
                            FailGroup(@, syncTasks, GroupSeq(syncTasks, grp),
                                      <<"not permitted", first.group, first.kind>>)]
                      /\ gs' = SetDisco(gs, idxs, "denied", disco)
                      /\ grp' = next
                      /\ UNCHANGED pc
                 ELSE /\ gs' = [k \in 1..Len(gs) |->
                                  IF k \in idxs
                                  THEN [gs[k] EXCEPT !.pc = "ready", !.disco = "ok",
                                                     !.lookup = disco]
                                  ELSE gs[k]]
                      /\ pc' = "apply"
                      /\ UNCHANGED <<opState, grp, syncSuccessful>>
    /\ UNCHANGED <<pass, syncTasks, lock, applyCalls, deleteCalls, ret>>
    /\ EnvUnchanged

\* a goroutine that applies whatever its task is
ReturnsBeforeApplyNever(t) == FALSE

\* the goroutine of a hook returns before applyObject
ReturnsBeforeApply(t) == isHook(t)

\* a goroutine of the group: a hook ends at once, any other calls ApplyResource
ApplyObject(i) ==
    /\ pc = "apply"
    /\ i \in GroupOf(syncTasks, grp)
    /\ gs[i].pc = "ready"
    /\ IF ReturnsBeforeApply(syncTasks[i])
       THEN /\ gs' = [gs EXCEPT ![i].pc = "done"]
            /\ UNCHANGED applyCalls
       ELSE /\ gs' = [gs EXCEPT ![i].pc = "calling", ![i].called = TRUE]
            /\ applyCalls' = applyCalls \cup {<<syncTasks[i], pass.dryRun>>}
    /\ UNCHANGED <<opState, pc, pass, syncTasks, grp, syncSuccessful, lock, deleteCalls, ret>>
    /\ EnvUnchanged

\* ApplyResource returns; the goroutine flags a failure
ApplyReturn(i) ==
    /\ pc = "apply"
    /\ i \in GroupOf(syncTasks, grp)
    /\ gs[i].pc = "calling"
    /\ \E ok \in BOOLEAN :
        LET det == applyObjectResult(syncTasks[i], pass.dryRun, ok)
        IN  /\ gs' = [gs EXCEPT ![i].pc = "returned", ![i].det = det]
            /\ syncSuccessful' = FlagFailure(syncSuccessful, det)
    /\ UNCHANGED <<opState, pc, pass, syncTasks, grp, lock, applyCalls, deleteCalls, ret>>
    /\ EnvUnchanged

\* a processCreateTasks without createWg.Wait()
GroupWaveNotAwaited(g, idxs) == TRUE

\* createWg.Wait(): every goroutine of the group has ended
GroupWaveDone(g, idxs) == \A k \in idxs : g[k].pc = "done"

ApplyWait ==
    /\ pc = "apply"
    /\ GroupWaveDone(gs, GroupOf(syncTasks, grp))
    /\ pc' = "groups"
    /\ grp' = GroupEnd(syncTasks, grp) + 1
    /\ UNCHANGED <<opState, pass, syncTasks, gs, syncSuccessful, lock, applyCalls,
                   deleteCalls, ret>>
    /\ EnvUnchanged

\* doApplySync returns syncSuccessful and sync() goes on
DoApplyReturn ==
    /\ pc = "groups"
    /\ grp > Len(CreateIdx(syncTasks))
    /\ ret' = IF pass.dryRun
              THEN [ret EXCEPT !.dry = IF syncSuccessful THEN "ok" ELSE "failed"]
              ELSE [ret EXCEPT !.real = IF syncSuccessful THEN "ok" ELSE "failed"]
    /\ IF pass.dryRun
       THEN IF ~syncSuccessful
            THEN EndSync(setOperationPhase(opState, "Failed",
                             "one or more objects failed to apply (dry run)"))
            ELSE IF syncOp.dryRun
            THEN EndSync(setOperationPhase(opState, "Succeeded",
                             "successfully synced (dry run)"))
            ELSE Strategy(opState, syncTasks)
       ELSE IF ~syncSuccessful
            THEN EndSync(setOperationPhase(opState, "Failed",
                             "one or more objects failed to apply"))
            ELSE IF pass.caller = "hook"
            THEN \E syncHooks \in BOOLEAN :
                    EndSync([opState EXCEPT !.hooks =
                                IF syncHooks THEN @ \cup {"Sync"} ELSE @])
            ELSE EndSync(opState)
    /\ count' = CountPass(count, pc', pass')
    /\ UNCHANGED <<lock, applyCalls, deleteCalls>>
    /\ UNCHANGED <<resources, syncOp, proj, head, history, invocations, auto, diff>>

(***************************************************************************)
(* After sync(): the history write.  Between invocations: the environment. *)
(***************************************************************************)
PersistDeploymentInfo ==
    /\ pc = "persist"
    /\ \E ok \in BOOLEAN :
        IF ok
        THEN /\ history' = Append(history, opState.revision)
             /\ UNCHANGED opState
        ELSE /\ opState' = [opState EXCEPT
                    !.phase = "Error", !.message = "failed to record sync to history"]
             /\ UNCHANGED history
    /\ pc' = "idle"
    /\ UNCHANGED <<resources, syncOp, proj, head, pass, syncTasks, gs, grp, syncSuccessful,
                   lock, applyCalls, deleteCalls, ret, invocations, count, auto, diff>>

\* the symbolic revision of the request moves to another commit
MoveHead ==
    /\ pc = "idle"
    /\ opState.phase \in NonTerminal
    /\ invocations > 0
    /\ head = "c1"
    /\ head' = "c2"
    /\ UNCHANGED <<resources, syncOp, proj, opState, pc, pass, syncTasks, gs, grp,
                   syncSuccessful, lock, applyCalls, deleteCalls, ret, history, invocations,
                   count, auto, diff>>

\* the operation is cancelled between two invocations
Cancel ==
    /\ pc = "idle"
    /\ opState.phase = "Running"
    /\ invocations > 0
    /\ opState' = [opState EXCEPT !.phase = "Terminating"]
    /\ UNCHANGED <<resources, syncOp, proj, head, pc, pass, syncTasks, gs, grp,
                   syncSuccessful, lock, applyCalls, deleteCalls, ret, history, invocations,
                   count, auto, diff>>

\* the list without its k-th element
Without(s, k) == SubSeq(s, 1, k - 1) \o SubSeq(s, k + 1, Len(s))

\* between two invocations a live object that the comparison listed for pruning
\* leaves the cluster: the next CompareAppState no longer lists it
ClusterChange ==
    /\ pc = "idle"
    /\ opState.phase \in NonTerminal
    /\ invocations > 0
    /\ \E k \in 1..Len(resources) :
        /\ resources[k].prune
        /\ resources' = Without(resources, k)
    /\ UNCHANGED <<syncOp, proj, head, opState, pc, pass, syncTasks, gs, grp,
                   syncSuccessful, lock, applyCalls, deleteCalls, ret, history, invocations,
                   count, auto, diff>>

Next ==
    \/ SyncAppState
    \/ \E i \in 1..MaxTasks : PruneObject(i)
    \/ \E i \in 1..MaxTasks : DeleteReturn(i)
    \/ \E i \in 1..MaxTasks : Record(i)
    \/ \E i \in 1..MaxTasks : SetResourceDetails(i)
    \/ PruneWait
    \/ ProcessCreateTasks
    \/ \E i \in 1..MaxTasks : ApplyObject(i)
    \/ \E i \in 1..MaxTasks : ApplyReturn(i)
    \/ ApplyWait
    \/ DoApplyReturn
    \/ PersistDeploymentInfo
    \/ MoveHead
    \/ Cancel
    \/ ClusterChange

Spec == Init /\ [][Next]_vars

(***************************************************************************)
(* Strategy Apply against a cluster that accepts everything: the           *)
(* comparison and every lookup succeed, discovery resolves every kind, the *)
(* project permits every kind, every ApplyResource and DeleteResource call *)
(* succeeds and so does the history write.  The caller re-invokes          *)
(* SyncAppState as long as the phase is not terminal, so the invocation    *)
(* counter stops at its bound instead of stopping the caller.              *)
(***************************************************************************)
LiveInit ==
    /\ resources \in ResourceLists \ {<<>>}
    /\ syncOp \in [hasSync : {TRUE}, revision : {"HEAD"}, prune : BOOLEAN, dryRun : BOOLEAN,
                   strategy : {"apply"}, selector : {NoSelector},
                   overrides : {NoOverrides}]
    /\ proj = {}
    /\ head = "c1"
    /\ opState = NewOpState
    /\ pc = "idle"
    /\ pass = NoPass
    /\ syncTasks = <<>>
    /\ gs = <<>>
    /\ grp = 0
    /\ syncSuccessful = TRUE
    /\ lock = 0
    /\ applyCalls = {}
    /\ deleteCalls = {}
    /\ ret = NoRet
    /\ history = <<>>
    /\ invocations = 0
    /\ count = NoCount
    /\ auto = NoAuto
    /\ diff = NoDiff

LiveSyncAppState ==
    /\ invocations' = Inc(invocations)
    /\ SyncAppStateCall
    /\ ret'.lookup = "ok"
    /\ opState'.phase # "Error"

LiveDeleteReturn(i) == DeleteReturn(i) /\ StatusSuccessful(gs'[i].det.status)

LiveProcessCreateTasks == ProcessCreateTasks /\ pc' = "apply"

LiveApplyReturn(i) == ApplyReturn(i) /\ StatusSuccessful(gs'[i].det.status)

LivePersistDeploymentInfo == PersistDeploymentInfo /\ opState' = opState

LiveNext ==
    \/ LiveSyncAppState
    \/ \E i \in 1..MaxTasks : PruneObject(i)
    \/ \E i \in 1..MaxTasks : LiveDeleteReturn(i)
    \/ \E i \in 1..MaxTasks : Record(i)
    \/ \E i \in 1..MaxTasks : SetResourceDetails(i)
    \/ PruneWait
    \/ LiveProcessCreateTasks
    \/ \E i \in 1..MaxTasks : ApplyObject(i)
    \/ \E i \in 1..MaxTasks : LiveApplyReturn(i)
    \/ ApplyWait
    \/ DoApplyReturn
    \/ LivePersistDeploymentInfo

\* every goroutine runs on, every call returns, and the caller re-invokes
LiveFairness ==
    /\ WF_vars(LiveSyncAppState)
    /\ WF_vars(\E i \in 1..MaxTasks : PruneObject(i))
    /\ WF_vars(\E i \in 1..MaxTasks : LiveDeleteReturn(i))
    /\ WF_vars(\E i \in 1..MaxTasks : Record(i))
    /\ WF_vars(\E i \in 1..MaxTasks : SetResourceDetails(i))
    /\ WF_vars(PruneWait)
    /\ WF_vars(LiveProcessCreateTasks)
    /\ WF_vars(\E i \in 1..MaxTasks : ApplyObject(i))
    /\ WF_vars(\E i \in 1..MaxTasks : LiveApplyReturn(i))
    /\ WF_vars(ApplyWait)
    /\ WF_vars(DoApplyReturn)
    /\ WF_vars(LivePersistDeploymentInfo)

LiveSpec == LiveInit /\ [][LiveNext]_vars /\ LiveFairness

\* C11: with strategy Apply, a non-empty task list and a cluster that accepts
\* every dry run and every apply, re-invoking SyncAppState while the phase
\* is not terminal eventually brings the phase to Succeeded.
C11_EventuallySucceeded == <>(opState.phase = "Succeeded")

(***************************************************************************)
(* generateSyncTasks on its own: every resource list up to MaxSortLen over *)
(* known kinds (Namespace is the first of resourceOrder), unknown kinds    *)
(* and a prune task.                                                       *)
(***************************************************************************)
SortObjs ==
    {Target("", "Namespace", "a"), Target("", "Namespace", "b"),
     Target("", "ConfigMap", "c"),
     Target("apps", "Deployment", "a"), Target("apps", "Deployment", "b"),
     Target("foo.io", "Foo", "a"), Target("foo.io", "Foo", "c"),
     Target("bar.io", "Bar", "b"),
     pruneDep}

SortInit ==
    /\ resources \in SeqsUpTo(SortObjs, MaxSortLen)
    /\ syncOp \in [hasSync : {TRUE}, revision : {"HEAD"}, prune : {FALSE}, dryRun : {FALSE},
                   strategy : {"apply"}, selector : Selectors, overrides : {NoOverrides}]
    /\ proj = {}
    /\ head = "c1"
    /\ opState = NewOpState
    /\ pc = "generate"
    /\ pass = NoPass
    /\ syncTasks = <<>>
    /\ gs = <<>>
    /\ grp = 0
    /\ syncSuccessful = TRUE
    /\ lock = 0
    /\ applyCalls = {}
    /\ deleteCalls = {}
    /\ ret = NoRet
    /\ history = <<>>
    /\ invocations = 0
    /\ count = NoCount
    /\ auto = NoAuto
    /\ diff = NoDiff

GenerateSyncTasks ==
    /\ pc = "generate"
    /\ syncTasks' = generateSyncTasks(resources, syncOp.selector)
    /\ pc' = "generated"
    /\ UNCHANGED <<resources, syncOp, proj, head, opState, pass, gs, grp, syncSuccessful,
                   lock, applyCalls, deleteCalls, ret, history, invocations, count, auto, diff>>

SortNext == GenerateSyncTasks

SortSpec == SortInit /\ [][SortNext]_vars

ApplyKnown(t) == ~t.prune /\ t.kind \in KnownKinds
ApplyUnknown(t) == ~t.prune /\ t.kind \notin KnownKinds

\* C3: in the list generateSyncTasks returns, every apply task of an unknown
\* kind comes after every apply task of a known kind, and the apply tasks of
\* unknown kinds are ordered by kind name, then by name.
C3_UnknownKindsLast ==
    pc = "generated" =>
        \A i, j \in 1..Len(syncTasks) :
            /\ (ApplyUnknown(syncTasks[i]) /\ ApplyKnown(syncTasks[j])) => j < i
            /\ (ApplyUnknown(syncTasks[i]) /\ ApplyUnknown(syncTasks[j]) /\ i < j) =>
                  \/ StrLess(syncTasks[i].kind, syncTasks[j].kind)
                  \/ /\ syncTasks[i].kind = syncTasks[j].kind
                     /\ ~StrLess(syncTasks[j].name, syncTasks[i].name)

\* C4: in the list generateSyncTasks returns, an apply task of a known kind
\* precedes every apply task of a known kind that is later in resourceOrder,
\* whatever else the list holds.
C4_KindOrdering ==
    pc = "generated" =>
        \A i, j \in 1..Len(syncTasks) :
            (/\ ApplyKnown(syncTasks[i]) /\ ApplyKnown(syncTasks[j])
             /\ OrderingOf(syncTasks[i].kind) < OrderingOf(syncTasks[j].kind)) => i < j

(***************************************************************************)
(* Properties of SyncAppState, checked under Spec.                         *)
(***************************************************************************)
CreateSet(tasks) == {k \in 1..Len(tasks) : ~tasks[k].prune}

\* doApplySync is about to return: every group has been processed
AtDoApplyReturn == pc = "groups" /\ grp > Len(CreateIdx(syncTasks))

\* the goroutine of task k has its outcome
HasOutcome(k) == gs[k].pc \in {"returned", "locked", "done"}

\* C1: once SyncResult.Revision is non-empty no step changes it, also when
\* the symbolic revision of the request has moved to another commit.
C1_RevisionWriteOnce ==
    [][opState.revision # "" => opState'.revision = opState.revision]_vars

C1_Witness ==
    /\ invocations >= 2
    /\ syncOp.revision = "HEAD"
    /\ head = "c2"
    /\ opState.revision = "c1"
    /\ opState.phase = "Succeeded"

OwnDenied(t) == ~IsResourcePermitted(proj, t.group, t.kind, Namespaced(t.kind))

\* C5: an apply task whose own group, kind and scope the project does not
\* permit, and whose group passed discovery, is never handed to ApplyResource,
\* gets a not-permitted SyncFailed entry, and makes doApplySync return false.
C5_DeniedNeverApplied ==
    \A i \in CreateSet(syncTasks) :
        (OwnDenied(syncTasks[i]) /\ gs[i].disco \in {"ok", "denied"}) =>
            /\ ~gs[i].called
            /\ <<syncTasks[i], TRUE>> \notin applyCalls
            /\ <<syncTasks[i], FALSE>> \notin applyCalls
            /\ AtDoApplyReturn =>
                  /\ ~syncSuccessful
                  /\ \E k \in 1..Len(opState.resources) :
                        /\ opState.resources[k].kind = syncTasks[i].kind
                        /\ opState.resources[k].name = syncTasks[i].name
                        /\ opState.resources[k].status = "SyncFailed"
                        /\ opState.resources[k].message[1] = "not permitted"

\* C6: a prune goroutine calls DeleteResource iff syncOp.Prune and not dryRun;
\* prune with dryRun yields SyncedAndPruned "pruned (dry run)", no prune
\* yields PruningRequired, both without a delete.
C6_PruneSemantics ==
    /\ deleteCalls # {} => (syncOp.prune /\ ~syncOp.dryRun)
    /\ \A i \in PruneIdx(syncTasks) :
        /\ gs[i].called => (syncTasks[i] \in deleteCalls /\ syncOp.prune /\ ~pass.dryRun)
        /\ (gs[i].pc # "ready" /\ syncOp.prune /\ ~pass.dryRun) => gs[i].called
        /\ (HasOutcome(i) /\ syncOp.prune /\ pass.dryRun) =>
              /\ gs[i].det.status = "SyncedAndPruned"
              /\ gs[i].det.message = <<"pruned (dry run)">>
              /\ ~gs[i].called
        /\ (HasOutcome(i) /\ ~syncOp.prune) =>
              /\ gs[i].det.status = "PruningRequired"
              /\ ~gs[i].called

C6_Witness ==
    /\ ret.dry = "ok"
    /\ \E i \in PruneIdx(syncTasks) :
          gs[i].pc = "done" /\ gs[i].called /\ gs[i].det.status = "SyncedAndPruned"

\* a step of processCreateTasks has touched task k
CreateStarted(k) == gs[k].pc # "idle" \/ gs[k].disco # "none"

\* the outcome of goroutine k is in SyncResult if it had to be recorded
OutcomeSettled(k) ==
    /\ gs[k].pc = "done"
    /\ (gs[k].det # NoDet /\ Records(pass.update, gs[k].det)) =>
          \E m \in 1..Len(opState.resources) : Matches(opState.resources[m], gs[k].det)

\* C7: no discovery lookup, permission check or ApplyResource call of an apply
\* task starts before every prune goroutine has ended with its outcome recorded.
C7_PrunesBeforeApplies ==
    (pc \in {"groups", "apply"} \/ \E i \in CreateSet(syncTasks) : CreateStarted(i)) =>
        \A k \in PruneIdx(syncTasks) : OutcomeSettled(k)

C7_Witness ==
    /\ Cardinality(PruneIdx(syncTasks)) >= 2
    /\ \A k \in PruneIdx(syncTasks) : gs[k].called
    /\ \E i \in CreateSet(syncTasks) : gs[i].pc = "calling"

\* the tasks at positions a < b of createTasks lie in different groups
DifferentGroups(tasks, a, b) ==
    \E k \in (a + 1)..b :
        tasks[CreateIdx(tasks)[k]].kind # tasks[CreateIdx(tasks)[k - 1]].kind

\* C8: the goroutines of a group start only after every goroutine of every
\* earlier group has ended with its outcome recorded.
C8_GroupsSequential ==
    \A a, b \in 1..Len(CreateIdx(syncTasks)) :
        (/\ a < b
         /\ DifferentGroups(syncTasks, a, b)
         /\ CreateStarted(CreateIdx(syncTasks)[b])) =>
            LET i == CreateIdx(syncTasks)[a]
            IN  \/ gs[i].disco \in {"failed", "denied", "skipped"} /\ gs[i].pc = "idle"
                \/ gs[i].disco = "ok" /\ OutcomeSettled(i)

C8_Witness ==
    \E a, b, c \in CreateSet(syncTasks) :
        /\ a # b
        /\ syncTasks[a].kind = syncTasks[b].kind
        /\ syncTasks[c].kind # syncTasks[a].kind
        /\ gs[a].called /\ gs[b].called
        /\ gs[c].pc = "calling"

\* C9: when doApplySync returns from a pass with update = true, SyncResult
\* holds for every prune task and every non-hook apply task that ran an entry
\* equal to the task's own outcome.
C9_EveryOutcomeRecorded ==
    (AtDoApplyReturn /\ pass.update) =>
        \A i \in 1..Len(syncTasks) :
            (HasOutcome(i) /\ ~isHook(syncTasks[i])) =>
                \E k \in 1..Len(opState.resources) : opState.resources[k] = gs[i].det

UniqueByKindName(rs) ==
    \A k, m \in 1..Len(rs) : (rs[k].kind = rs[m].kind /\ rs[k].name = rs[m].name) => k = m

\* the effect of one setResourceDetails(det) call on the list
ReplacedOrAppended(old, new, det) ==
    IF \E k \in 1..Len(old) : Matches(old[k], det)
    THEN /\ Len(new) = Len(old)
         /\ \A k \in 1..Len(old) : new[k] = IF Matches(old[k], det) THEN det ELSE old[k]
    ELSE new = Append(old, det)

\* C10: SyncResult.Resources never holds two entries of one (kind, name); a
\* goroutine's setResourceDetails replaces the entry of its (kind, name) in
\* place or, if there is none, appends one entry, and changes nothing else.
C10_UniqueEntries ==
    /\ [](UniqueByKindName(opState.resources))
    /\ [][\A i \in 1..Len(gs) :
            (gs[i].pc = "locked" /\ i \in 1..Len(gs') /\ gs'[i].pc = "done") =>
                ReplacedOrAppended(opState.resources, opState'.resources, gs[i].det)]_vars

C10_Witness ==
    \E i, j \in 1..Len(syncTasks) :
        /\ i # j
        /\ gs[i].pc = "done" /\ gs[j].pc = "done"
        /\ Records(pass.update, gs[i].det) /\ Records(pass.update, gs[j].det)
        /\ gs[i].det # NoDet
        /\ Matches(gs[i].det, gs[j].det)
        /\ Len(opState.resources) = 1

\* C12: over the invocations of one operation of strategy Apply, the dry-run
\* pass runs in at most one invocation and the real apply pass runs in at
\* most one invocation.
C12_PassesAtMostOnce ==
    syncOp.strategy = "apply" => (count.dry <= 1 /\ count.real <= 1)

\* task k failed in the running pass: its call was rejected, or its group
\* failed discovery or the permission check
TaskFailed(k) == gs[k].det.status = "SyncFailed" \/ gs[k].disco \in {"failed", "denied"}

\* SyncResult holds a SyncFailed entry of the kind and name of task t
HasFailedEntry(t) ==
    \E m \in 1..Len(opState.resources) :
        /\ opState.resources[m].kind = t.kind
        /\ opState.resources[m].name = t.name
        /\ opState.resources[m].status = "SyncFailed"

DryRunFailed == AtDoApplyReturn /\ pass.dryRun /\ \E k \in 1..Len(syncTasks) : TaskFailed(k)

\* the ApplyResource calls issued without dryRun
RealApplyCalls == {c \in applyCalls : ~c[2]}

C13_FailedEntries ==
    DryRunFailed => \A k \in 1..Len(syncTasks) : TaskFailed(k) => HasFailedEntry(syncTasks[k])

C13_NoRealCalls == DryRunFailed => (RealApplyCalls = {} /\ deleteCalls = {})

C13_EndsFailed ==
    DryRunFailed =>
        /\ pc' = "idle"
        /\ opState'.phase = "Failed"
        /\ opState'.message = "one or more objects failed to apply (dry run)"
        /\ applyCalls' = applyCalls
        /\ deleteCalls' = deleteCalls

\* C13: when a task fails the dry-run pass, SyncResult holds a SyncFailed
\* entry for each failed task when the pass returns, the invocation ends
\* there with phase Failed and the message "one or more objects failed to
\* apply (dry run)", and it has issued no ApplyResource call without dryRun
\* and no DeleteResource call.
C13_DryRunFailure ==
    /\ [](C13_FailedEntries /\ C13_NoRealCalls)
    /\ [][C13_EndsFailed]_vars

\* processCreateTasks has run for the group of every apply task
EveryGroupProcessed == \A k \in CreateSet(syncTasks) : gs[k].disco # "none"

\* a dry-run pass ends only from the point where every group has been processed
DryRunEndsAfterLastGroup == (pass.dryRun /\ pc # "idle" /\ pc' = "idle") => AtDoApplyReturn

\* C14: in the dry-run pass a failing kind group does not stop the later
\* groups: the pass returns, and phase Failed is set, only after
\* processCreateTasks has run for every group, and SyncResult then holds a
\* SyncFailed entry for every failing task of every group.
C14_AllGroupsValidated ==
    /\ []((AtDoApplyReturn /\ pass.dryRun) =>
            /\ EveryGroupProcessed
            /\ \A k \in CreateSet(syncTasks) :
                  TaskFailed(k) => HasFailedEntry(syncTasks[k]))
    /\ [][DryRunEndsAfterLastGroup]_vars

\* C15 as claimed: over the invocations of one operation CompareAppState is
\* run at most once.
C15_ComparatorOnce == count.compare <= 1

\* C15 as amended: every invocation of an operation with a sync request runs
\* CompareAppState once, and a pass it starts works on the tasks generated
\* from the resources of that comparison.
C15_ComparatorEveryInvocation ==
    /\ [](syncOp.hasSync => count.compare = invocations)
    /\ [][(invocations' = invocations + 1 /\ pc' = "prune") =>
            syncTasks' = generateSyncTasks(resources, syncOp.selector)]_vars

\* the second comparison no longer lists the pruned object of the first
C15_Witness ==
    /\ count.compare >= 2
    /\ opState.phase = "Succeeded"
    /\ opState.message = "successfully synced (no manifests)"
    /\ Len(opState.resources) > 0

\* this step is a SyncAppState invocation entered with phase Terminating
TerminatingEntry ==
    pc = "idle" /\ opState.phase = "Terminating" /\ invocations' = invocations + 1

\* the step starts no doApplySync pass and issues no cluster call
NoSyncPath ==
    /\ pc' = "idle"
    /\ count'.dry = count.dry /\ count'.real = count.real
    /\ applyCalls' = applyCalls
    /\ deleteCalls' = deleteCalls

\* C16 as claimed: an invocation entered with phase Terminating runs no dry
\* run, no apply task and no prune task, and ends with phase Failed.
C16_TerminatingEndsFailed ==
    [][TerminatingEntry => (NoSyncPath /\ opState'.phase = "Failed")]_vars

\* C16 as amended: an invocation entered with phase Terminating runs no dry
\* run, no apply task and no prune task; it ends with phase Failed by the
\* terminate path when the comparison and every lookup succeed, and with
\* phase Error and the lookup's message when one of them fails.
C16_TerminatingAmended ==
    [][TerminatingEntry =>
          /\ NoSyncPath
          /\ IF ret'.lookup = "ok"
             THEN opState'.phase = "Failed" /\ opState'.message = "Operation terminated"
             ELSE /\ opState'.phase = "Error"
                  /\ opState'.message = LookupMessage(ret'.lookup)]_vars

C16_Witness ==
    /\ pc = "idle"
    /\ invocations >= 2
    /\ ret.lookup = "ok"
    /\ opState.phase = "Failed"
    /\ opState.message = "Operation terminated"
    /\ Len(opState.resources) > 0

\* the comparison or a lookup of the latest invocation failed
LookupFailed(r) == r.lookup \in Lookups \ {"ok"}

\* C17: when CompareAppState returns an error or an error-level condition, or
\* the cluster, client or project lookup fails, the invocation ends with
\* phase Error and the message of the failure, runs no pass, issues no
\* ApplyResource or DeleteResource call and writes no history; when it is
\* the Comparator that failed, SyncResult.Revision is as it was on entry.
C17_LookupFailureEndsError ==
    /\ [](LookupFailed(ret) =>
            /\ pc = "idle"
            /\ opState.phase = "Error"
            /\ opState.message = LookupMessage(ret.lookup))
    /\ [][(invocations' = invocations + 1 /\ LookupFailed(ret')) =>
            /\ NoSyncPath
            /\ history' = history
            /\ opState'.resources = opState.resources
            /\ (ret'.lookup \in ComparatorFailures =>
                   opState'.revision = opState.revision)]_vars

C17_Witness ==
    /\ ret.lookup = "compare"
    /\ invocations >= 2
    /\ opState.phase = "Error"
    /\ opState.revision = "c1"
    /\ head = "c2"
    /\ Len(opState.resources) > 0

(***************************************************************************)
(* The auto-sync policy: autoSync(app, comparisonResult) on every          *)
(* Application with or without an automated policy, a comparison that is   *)
(* Synced or OutOfSync at a revision, and a most recent OperationState, if *)
(* any, that Succeeded or Failed at a revision with its own overrides.     *)
(***************************************************************************)
\* ComponentParameter: <<name, value>>
Parameters == {<<"a", "1">>, <<"a", "2">>, <<"b", "1">>}

OverrideLists == SeqsUpTo(Parameters, MaxOverrides)

\* app.Status.OperationState == nil
NoOperationState == [phase |-> "", revision |-> "", overrides |-> <<>>]

OperationStates ==
    {NoOperationState} \cup
    [phase : {"Succeeded", "Failed"}, revision : Commits, overrides : OverrideLists]

\* app.Operation == nil
NoOperation == [set |-> FALSE, revision |-> "", prune |-> FALSE, overrides |-> <<>>]

Applications ==
    [state : {"given"}, automated : BOOLEAN, status : {"Synced", "OutOfSync"},
     revision : Commits, overrides : OverrideLists, last : OperationStates,
     operation : {NoOperation}, cond : {"unset"}]

\* an override comparison that depends on the order of the list
SameOverridesInOrder(x, y) == x = y

\* the (name, value) pairs of a list of overrides
OverrideSet(x) == {x[k] : k \in 1..Len(x)}

\* parameter-override equality: set-equal on (name, value) pairs
SameOverrides(x, y) == OverrideSet(x) = OverrideSet(y)

\* an attempt check that looks at the revision alone
AlreadyAttemptedRevision(a) ==
    a.last # NoOperationState /\ a.last.revision = a.revision

\* the most recent SyncResult has the revision of the comparison and the
\* operation the overrides of the Application
AlreadyAttempted(a) ==
    /\ a.last # NoOperationState
    /\ a.last.revision = a.revision
    /\ SameOverrides(a.last.overrides, a.overrides)

\* an autoSync that reports no failed attempt
PreviousSyncSucceeded(a) == FALSE

\* the attempt already made did not succeed
PreviousSyncFailed(a) == a.last.phase = "Failed"

\* the Operation autoSync sets on the Application
NewOperation(a) ==
    [set |-> TRUE, revision |-> a.revision, prune |-> FALSE, overrides |-> a.overrides]

\* autoSync: the decision table, first matching row
autoSync(a) ==
    IF ~a.automated THEN [a EXCEPT !.state = "returned", !.cond = "nil"]
    ELSE IF a.status # "OutOfSync" THEN [a EXCEPT !.state = "returned", !.cond = "nil"]
    ELSE IF AlreadyAttempted(a)
    THEN IF PreviousSyncFailed(a)
         THEN [a EXCEPT !.state = "returned", !.cond = "previous sync to this revision failed"]
         ELSE [a EXCEPT !.state = "returned", !.cond = "nil"]
    ELSE [a EXCEPT !.state = "returned", !.cond = "nil", !.operation = NewOperation(a)]

AutoInit ==
    /\ resources = <<>>
    /\ syncOp = NoSyncOp
    /\ proj = {}
    /\ head = "c1"
    /\ opState = NewOpState
    /\ pc = "auto"
    /\ pass = NoPass
    /\ syncTasks = <<>>
    /\ gs = <<>>
    /\ grp = 0
    /\ syncSuccessful = TRUE
    /\ lock = 0
    /\ applyCalls = {}
    /\ deleteCalls = {}
    /\ ret = NoRet
    /\ history = <<>>
    /\ invocations = 0
    /\ count = NoCount
    /\ auto \in Applications
    /\ diff = NoDiff

AutoSync ==
    /\ pc = "auto"
    /\ auto.state = "given"
    /\ auto' = autoSync(auto)
    /\ UNCHANGED <<resources, syncOp, proj, head, opState, pc, pass, syncTasks, gs, grp,
                   syncSuccessful, lock, applyCalls, deleteCalls, ret, history, invocations,
                   count, diff>>

AutoNext == AutoSync

AutoSpec == AutoInit /\ [][AutoNext]_vars

\* the most recent attempt is the one the comparison asks for
SameAttempt(a) ==
    /\ a.last # NoOperationState
    /\ a.last.revision = a.revision
    /\ OverrideSet(a.last.overrides) = OverrideSet(a.overrides)

\* C18: autoSync leaves the Operation unset when the automated policy is
\* absent, when the comparison is Synced, and when the most recent attempt
\* has the revision of the comparison and the overrides of the Application,
\* whether it Succeeded or Failed.
C18_SkipLeavesOperationUnset ==
    auto.state = "returned" =>
        ((~auto.automated \/ auto.status = "Synced" \/ SameAttempt(auto)) =>
            auto.operation = NoOperation)

\* a failed attempt whose overrides are those of the Application in another order
C18_Witness ==
    /\ auto.state = "returned"
    /\ auto.automated /\ auto.status = "OutOfSync"
    /\ SameAttempt(auto)
    /\ auto.last.phase = "Failed"
    /\ Len(auto.overrides) = 2
    /\ auto.last.overrides # auto.overrides
    /\ auto.operation = NoOperation

\* C19: autoSync returns a condition exactly when the policy is automated,
\* the comparison is OutOfSync and the most recent attempt has the same
\* revision and overrides and Failed; in every other case it returns nil.
C19_ConditionIffFailedAttempt ==
    auto.state = "returned" =>
        /\ auto.cond \in {"nil", "previous sync to this revision failed"}
        /\ auto.cond # "nil" <=>
              /\ auto.automated
              /\ auto.status = "OutOfSync"
              /\ SameAttempt(auto)
              /\ auto.last.phase = "Failed"

\* TestAutoSyncIndicateError
C19_Witness ==
    /\ auto.state = "returned"
    /\ auto.cond = "previous sync to this revision failed"
    /\ auto.overrides = <<<<"a", "1">>>>
    /\ auto.last.overrides = <<<<"a", "1">>>>
    /\ auto.operation = NoOperation

\* C20: with an automated policy and an OutOfSync comparison, when the most
\* recent attempt differs from the comparison in revision or in the set of
\* overrides, autoSync sets an Operation whose Sync.Revision is the
\* revision of the comparison and whose Prune is false, also when the
\* previous attempt at that revision Failed.
C20_NewOperationOnChange ==
    (auto.state = "returned" /\ auto.automated /\ auto.status = "OutOfSync"
     /\ ~SameAttempt(auto)) =>
        /\ auto.operation.set
        /\ auto.operation.revision = auto.revision
        /\ ~auto.operation.prune

\* TestAutoSyncParameterOverrides
C20_Witness ==
    /\ auto.state = "returned"
    /\ auto.last.phase = "Failed"
    /\ auto.last.revision = auto.revision
    /\ auto.overrides = <<<<"a", "1">>>>
    /\ auto.last.overrides = <<<<"a", "2">>>>
    /\ auto.operation.set
    /\ auto.operation.revision = auto.revision
    /\ auto.cond = "nil"

(***************************************************************************)
(* The Differ: Diff(config, live), TwoWayDiff(config, live) and            *)
(* ThreeWayDiff(orig, config, live) of package diff.  An object is a map    *)
(* from field paths to values; a live object may carry the last-applied    *)
(* configuration annotation, whose value is the map it records.            *)
(***************************************************************************)
MaxFields == 2

FieldOrder == <<"foo", "namespace", "replicas">>

\* the field paths of an object
Fields == {FieldOrder[i] : i \in 1..MaxFields}

FieldValues == {"1", "2"}

\* the contents of an object: some of the fields, each with a value
FieldMaps == UNION {[S -> FieldValues] : S \in SUBSET Fields}

\* a nil *unstructured.Unstructured
Nil == [isNil |-> TRUE]

\* the non-nil objects: applied is <<>> without the annotation, <<m>> with
\* an annotation that records m
Objects == [isNil : {FALSE}, f : FieldMaps, applied : {<<>>} \cup {<<m>> : m \in FieldMaps}]

\* the manifests of the repository: no last-applied annotation
Manifests == {o \in Objects : o.applied = <<>>}

\* the paths on which a merge patch from a to b is not empty
Patch(a, b) ==
    {p \in Fields :
        \/ (p \in DOMAIN a) # (p \in DOMAIN b)
        \/ (p \in DOMAIN a /\ p \in DOMAIN b /\ a[p] # b[p])}

\* a two-way diff that reports a nil config as a difference
TwoWayDiffSymmetric(config, live) ==
    IF config = Nil \/ live = Nil THEN config # live
    ELSE \E p \in DOMAIN config.f : p \notin DOMAIN live.f \/ live.f[p] # config.f[p]

\* TwoWayDiff(config, live).Modified: a nil config is no difference, a nil
\* live is one, and fields of the live object that the config does not
\* have are left out of the comparison
TwoWayDiff(config, live) ==
    IF config = Nil THEN FALSE
    ELSE IF live = Nil THEN TRUE
    ELSE \E p \in DOMAIN config.f : p \notin DOMAIN live.f \/ live.f[p] # config.f[p]

\* a three-way diff that counts every path on which the live object differs
\* from the recorded configuration
ThreeWayDiffAllPaths(orig, config, live) ==
    Patch(orig, config.f) # {} \/ Patch(orig, live.f) # {}

\* ThreeWayDiff(orig, config, live).Modified: P1 is the patch from the
\* recorded configuration to the config, P2 the one from the recorded
\* configuration to the live object
ThreeWayDiff(orig, config, live) ==
    LET P1 == Patch(orig, config.f)
        P2 == Patch(orig, live.f)
    IN  P1 # {} \/ (P2 \cap (DOMAIN orig \cup P1)) # {}

\* GetLastAppliedConfigAnnotation(live)
HasLastApplied(live) == live # Nil /\ live.applied # <<>>

\* a Diff that never reads the annotation
DiffTwoWayOnly(config, live) == TwoWayDiff(config, live)

\* Diff(config, live).Modified
Diff(config, live) ==
    IF HasLastApplied(live) /\ config # Nil
    THEN ThreeWayDiff(live.applied[1], config, live)
    ELSE TwoWayDiff(config, live)

\* the calls: a config that is nil, a manifest, or the live object itself
DiffCalls ==
    UNION {{[state |-> "given", config |-> c, live |-> l] :
                c \in Manifests \cup {Nil, l}} : l \in Objects \cup {Nil}}

DiffInit ==
    /\ resources = <<>>
    /\ syncOp = NoSyncOp
    /\ proj = {}
    /\ head = "c1"
    /\ opState = NewOpState
    /\ pc = "diff"
    /\ pass = NoPass
    /\ syncTasks = <<>>
    /\ gs = <<>>
    /\ grp = 0
    /\ syncSuccessful = TRUE
    /\ lock = 0
    /\ applyCalls = {}
    /\ deleteCalls = {}
    /\ ret = NoRet
    /\ history = <<>>
    /\ invocations = 0
    /\ count = NoCount
    /\ auto = NoAuto
    /\ diff \in DiffCalls

DiffCall ==
    /\ pc = "diff"
    /\ diff.state = "given"
    /\ diff' = [state |-> "done", config |-> diff.config, live |-> diff.live,
                modified |-> Diff(diff.config, diff.live),
                twoWay |-> TwoWayDiff(diff.config, diff.live)]
    /\ UNCHANGED <<resources, syncOp, proj, head, opState, pc, pass, syncTasks, gs, grp,
                   syncSuccessful, lock, applyCalls, deleteCalls, ret, history, invocations,
                   count, auto>>

DiffNext == DiffCall

DiffSpec == DiffInit /\ [][DiffNext]_vars

\* the live object of a finished call records exactly its own fields, or
\* carries no last-applied annotation at all
RecordsItself(o) == \A i \in DOMAIN o.applied : o.applied[i] = o.f

LiveHasConfig(config, live) ==
    \A p \in DOMAIN config.f : p \in DOMAIN live.f /\ live.f[p] = config.f[p]

\* the fields that only the live object has: in neither the config nor the
\* recorded configuration
LiveOnly(config, live) ==
    {p \in DOMAIN live.f : p \notin DOMAIN config.f /\ p \notin DOMAIN live.applied[1]}

\* C22: in a three-way diff whose recorded configuration (the live object's
\* last-applied annotation) equals the desired one, fields that only the
\* live object has never make the result modified: a live object that
\* agrees with the desired one on the desired fields is not modified.
C22_LiveOnlyFieldsIgnored ==
    (/\ diff.state = "done"
     /\ diff.config # Nil
     /\ HasLastApplied(diff.live)
     /\ diff.live.applied[1] = diff.config.f
     /\ LiveHasConfig(diff.config, diff.live)) => ~diff.modified

\* the config and the annotation have foo, the live object has a namespace
\* as well
C22_Witness ==
    /\ diff.state = "done"
    /\ diff.config # Nil
    /\ HasLastApplied(diff.live)
    /\ diff.live.applied[1] = diff.config.f
    /\ DOMAIN diff.config.f = {"foo"}
    /\ LiveHasConfig(diff.config, diff.live)
    /\ LiveOnly(diff.config, diff.live) = {"namespace"}
    /\ ~diff.modified

\* the fields the live object has and the config does not
Removed(config, live) == DOMAIN live.f \ DOMAIN config.f

\* nothing but a removal separates the config from the live object: the
\* live object has every config field with the config's value, and a
\* recorded configuration has the config fields with the config's values
\* and no field the live object has lost
OnlyRemovals(config, live) ==
    /\ config # Nil /\ live # Nil
    /\ LiveHasConfig(config, live)
    /\ Removed(config, live) # {}
    /\ \A i \in DOMAIN live.applied :
          /\ \A p \in DOMAIN config.f :
                p \in DOMAIN live.applied[i] /\ live.applied[i][p] = config.f[p]
          /\ DOMAIN live.applied[i] \subseteq DOMAIN live.f

C24_PinnedRevisionCompared ==
    [][(invocations' = invocations + 1 /\ ret'.compare # <<>>) =>
          /\ ret'.compare[1].overrides = syncOp.overrides
          /\ opState.revision # "" => ret'.compare[1].revision = opState.revision
          /\ opState.revision = "" <=> ret'.compare[1].revision = syncOp.revision]_vars

\* a later invocation of an operation with an override has compared at the
\* recorded commit after HEAD moved to another one
C24_Witness ==
    /\ invocations >= 2
    /\ ret.compare # <<>>
    /\ ret.compare[1].overrides = OneOverride
    /\ ret.compare[1].revision = "c1"
    /\ opState.revision = "c1"
    /\ head = "c2"

\* the create tasks of the pass, as doApplySync hands them to hasCRDOfGroupKind
CreateTasks == SelectSeq(syncTasks, LAMBDA t : ~t.prune)

\* the group at grp has a CustomResourceDefinition among the create tasks
GroupHasCRD ==
    hasCRDOfGroupKind(CreateTasks, GroupGVK(syncTasks, grp).group,
                      GroupGVK(syncTasks, grp).kind)

\* the step of processCreateTasks on the group at grp found the discovery
\* lookup failed
DiscoveryFailedStep ==
    /\ pc = "groups"
    /\ grp <= Len(CreateIdx(syncTasks))
    /\ \E i \in GroupOf(syncTasks, grp) : gs'[i].lookup \in {"notfound", "err"}

\* the SyncFailed entry of task t with the message of the discovery error
FailedEntryOf(rs, t, lookup) ==
    \E k \in 1..Len(rs) :
        /\ rs[k].kind = t.kind /\ rs[k].name = t.name
        /\ rs[k].status = "SyncFailed"
        /\ rs[k].message[1] = (IF lookup = "notfound" THEN "not found" ELSE "discovery failed")

\* C25: a kind group whose discovery lookup fails is skipped, with nothing
\* recorded, exactly when the pass is a dry run, the error is not-found and
\* the create tasks hold a CustomResourceDefinition whose spec.group and
\* spec.names.kind are the group's; otherwise every task of the group gets
\* a SyncFailed entry with the error's message, none of them is applied,
\* and doApplySync returns false.
C25_DiscoveryFailure ==
    /\ [][DiscoveryFailedStep =>
            \A i \in GroupOf(syncTasks, grp) :
                LET skip == pass.dryRun /\ gs'[i].lookup = "notfound" /\ GroupHasCRD
                IN  /\ gs'[i].pc = "idle" /\ ~gs'[i].called
                    /\ applyCalls' = applyCalls
                    /\ grp' = GroupEnd(syncTasks, grp) + 1
                    /\ skip <=> gs'[i].disco = "skipped"
                    /\ skip => (opState' = opState /\ syncSuccessful' = syncSuccessful)
                    /\ ~skip => /\ gs'[i].disco = "failed"
                                /\ FailedEntryOf(opState'.resources, syncTasks[i],
                                                 gs'[i].lookup)
                                /\ ~syncSuccessful']_vars
    /\ [][(pc = "groups" /\ grp > Len(CreateIdx(syncTasks)) /\ pc' # pc
           /\ \E i \in CreateSet(syncTasks) : gs[i].disco = "failed") =>
             (IF pass.dryRun THEN ret'.dry ELSE ret'.real) = "failed"]_vars
    /\ [](\A i \in DOMAIN gs :
             /\ gs[i].disco = "failed" => (~syncSuccessful /\ ~gs[i].called)
             /\ gs[i].disco = "skipped" => ~gs[i].called)

\* a dry run that skipped the group of Foo f, whose definition is among the
\* create tasks, and recorded nothing
C25_Witness ==
    /\ pc = "groups"
    /\ pass.dryRun
    /\ \E i \in CreateSet(syncTasks) :
          /\ syncTasks[i].kind = "Foo"
          /\ gs[i].disco = "skipped"
          /\ gs[i].lookup = "notfound"
    /\ \E i \in CreateSet(syncTasks) : IsCRD(syncTasks[i])
    /\ opState.resources = <<>>
    /\ syncSuccessful

\* the groups the loop at the end of doApplySync hands to
\* processCreateTasks: the first positions of the runs of one kind
GroupStarts(tasks) ==
    {k \in 1..Len(CreateIdx(tasks)) :
        k = 1 \/ tasks[CreateIdx(tasks)[k]].kind # tasks[CreateIdx(tasks)[k - 1]].kind}

\* C26: in the sorted list all apply tasks of one target kind are
\* contiguous, so the grouping loop of doApplySync hands each kind to
\* processCreateTasks as exactly one group.
C26_KindsContiguous ==
    pc = "generated" =>
        /\ \A i, j, k \in CreateSet(syncTasks) :
              (i < k /\ k < j /\ syncTasks[i].kind = syncTasks[j].kind) =>
                  syncTasks[k].kind = syncTasks[i].kind
        /\ \A g, h \in GroupStarts(syncTasks) :
              GroupGVK(syncTasks, g).kind = GroupGVK(syncTasks, h).kind => g = h

\* the result list has an entry under the kind and name of task t
HasEntry(rs, t) == \E k \in 1..Len(rs) : rs[k].kind = t.kind /\ rs[k].name = t.name

\* C27: doApplySync never calls ApplyResource for a target that is a hook,
\* in the dry-run pass or the real one, and records no ResourceDetails
\* entry for a hook whose group passed discovery and the permission check.
C27_HooksNeverApplied ==
    /\ \A c \in applyCalls : ~c[1].hook
    /\ \A i \in DOMAIN gs :
          (syncTasks[i].hook /\ gs[i].disco = "ok") =>
              /\ gs[i].pc \in {"ready", "done"}
              /\ ~gs[i].called
              /\ gs[i].det = NoDet
              /\ ~HasEntry(opState.resources, syncTasks[i])

\* the real pass is over: the hook's goroutine has ended with nothing
\* recorded, next to a task that was applied and recorded
C27_Witness ==
    /\ AtDoApplyReturn
    /\ ~pass.dryRun /\ pass.update
    /\ \E i \in DOMAIN gs :
          /\ syncTasks[i].hook /\ gs[i].disco = "ok" /\ gs[i].pc = "done"
          /\ ~HasEntry(opState.resources, syncTasks[i])
    /\ \E i \in DOMAIN gs : ~syncTasks[i].hook /\ gs[i].called
    /\ opState.resources # <<>>

\* the goroutines inside the scan and update of setResourceDetails
InsideSetResourceDetails == {i \in DOMAIN gs : gs[i].pc = "locked"}

\* C28: at most one goroutine is inside the scan and update of
\* setResourceDetails at any time, and the lock is not held across a call
\* of ApplyResource or DeleteResource or a discovery lookup: the goroutine
\* that holds it is past its call, and the main thread looks a group up
\* with the lock free.
C28_LockScope ==
    /\ Cardinality(InsideSetResourceDetails) <= 1
    /\ \A i \in DOMAIN gs : gs[i].pc = "locked" <=> lock = i
    /\ \A i \in DOMAIN gs : gs[i].pc = "calling" => lock # i
    /\ pc = "groups" => lock = 0
    /\ lock # 0 => pc \in {"prune", "apply"}

\* one goroutine holds the lock, a second waits for it with a result to
\* record
C28_Witness ==
    \E i, j \in DOMAIN gs :
        /\ i # j
        /\ lock = i
        /\ gs[i].pc = "locked"
        /\ gs[j].pc = "returned"
        /\ Records(pass.update, gs[j].det)

\* the operation is one whose success is written to the history
HistoryDue == ~syncOp.dryRun /\ syncOp.selector.items = {} /\ opState.phase = "Succeeded"

\* C29: a history entry is written exactly when the sync step ends with
\* phase Succeeded in an operation that is no dry run and names no
\* syncResources; an operation that ends Running, Failed or Error, or is a
\* dry run or selective, never writes one, and a failed history write
\* turns the phase to Error.
C29_HistoryOnSuccessOnly ==
    /\ pc = "persist" => (HistoryDue /\ history = <<>>)
    /\ history # <<>> => (pc = "idle" /\ HistoryDue /\ history = <<opState.revision>>)
    /\ (pc = "idle" /\ HistoryDue) => history # <<>>
    /\ opState.message = "failed to record sync to history" =>
          (opState.phase = "Error" /\ history = <<>>)

\* the real pass applied a task and the revision of the operation is in
\* the history
C29_Witness ==
    /\ pc = "idle"
    /\ opState.phase = "Succeeded"
    /\ history = <<opState.revision>>
    /\ opState.resources # <<>>
    /\ count.real >= 1

\* the ResourceStates the operation asks for: all of them when syncResources
\* has no entry, else those that match an entry
Requested(rs, selector) ==
    {rs[k] : k \in {n \in 1..Len(rs) :
                       \/ selector.items = {}
                       \/ \E r \in selector.items :
                             /\ r.name = rs[n].name
                             /\ r.group = rs[n].group
                             /\ r.kind = rs[n].kind}}

\* C30: generateSyncTasks builds one task for every ResourceState when
\* syncResources is empty (absent or of length zero), and otherwise one task
\* for exactly the ResourceStates whose object matches an entry of
\* syncResources by name, group and kind.
C30_TasksForRequested ==
    pc = "generated" =>
        /\ Len(syncTasks) = Cardinality(Requested(resources, syncOp.selector))
        /\ {syncTasks[k] : k \in 1..Len(syncTasks)} = Requested(resources, syncOp.selector)

\* the tasks kindSorter.Less is called on: those of the list to sort
Sorted(rs) == {rs[k] : k \in 1..Len(rs)}

\* neither task is less than the other
Incomparable(a, b) == ~Less(a, b) /\ ~Less(b, a)

\* the lists with the elements of rs in any order
Reorderings(rs) ==
    {s \in [1..Len(rs) -> Sorted(rs)] : \A t \in Sorted(rs) : \E k \in 1..Len(rs) : s[k] = t}

\* Less is irreflexive, asymmetric and transitive on the set, and so is
\* incomparability
StrictWeakOrdering(T) ==
    /\ \A a \in T : ~Less(a, a)
    /\ \A a, b \in T : Less(a, b) => ~Less(b, a)
    /\ \A a, b, c \in T : (Less(a, b) /\ Less(b, c)) => Less(a, c)
    /\ \A a, b, c \in T : (Incomparable(a, b) /\ Incomparable(b, c)) => Incomparable(a, c)

\* the sorted list is the same for every order of the input
OrderIndependent(rs) ==
    \A s \in Reorderings(rs) : SortTasks(s) = SortTasks(rs)

\* C31: kindSorter.Less is a strict weak ordering over the sync tasks
\* (irreflexive, asymmetric, transitive, with transitive incomparability)
\* for known kinds, unknown kinds, names and prune tasks, so the sorted list
\* does not depend on the order of the input.
C31_StrictWeakOrdering ==
    pc = "generated" =>
        /\ StrictWeakOrdering(Sorted(resources))
        /\ (\A i, j \in 1..Len(resources) :
                i # j => ~Incomparable(resources[i], resources[j]))
             => OrderIndependent(resources)

\* some task of the running pass failed
SomeTaskFailed == \E k \in DOMAIN gs : TaskFailed(k)

\* C32: under every interleaving of the prune goroutines and of the apply
\* goroutines of each group, doApplySync returns false exactly when a prune
\* or apply task had a SyncFailed outcome or a kind group failed its
\* discovery lookup (the skipped dry-run lookup of a custom resource apart)
\* or its permission check; a failure that one goroutine flagged is never
\* lost to a success of another.
C32_ReturnsFalseIffFailure ==
    /\ [](pc \in {"prune", "groups", "apply"} => (~syncSuccessful <=> SomeTaskFailed))
    /\ [][(AtDoApplyReturn /\ pc' # "groups") =>
             ((IF pass.dryRun THEN ret'.dry ELSE ret'.real) = "failed" <=> SomeTaskFailed)]_vars

\* the real pass is over and returns false: the apply of one task of a
\* group was rejected, that of another task of the group succeeded and was
\* recorded
C32_Witness ==
    /\ AtDoApplyReturn
    /\ ~pass.dryRun
    /\ ~syncSuccessful
    /\ \E i, j \in DOMAIN gs :
          /\ i # j
          /\ syncTasks[i].kind = syncTasks[j].kind
          /\ gs[i].det.status = "SyncFailed"
          /\ gs[j].det.status = "Synced"
          /\ \E m \in 1..Len(opState.resources) : opState.resources[m].status = "Synced"

\* the first invocation of a dry-run operation is over and its dry-run pass
\* returned true: every task validated
DryRunValidated ==
    /\ syncOp.hasSync /\ syncOp.dryRun
    /\ pc = "idle"
    /\ invocations = 1
    /\ ret.dry = "ok"

\* SyncResult holds the dry-run outcome of task t
HasDryRunOutcome(t) ==
    \E m \in 1..Len(opState.resources) :
        /\ opState.resources[m].kind = t.kind
        /\ opState.resources[m].name = t.name
        /\ opState.resources[m].status # "SyncFailed"
        /\ opState.resources[m].message[1] \in
              {"applied (dry run)", "pruned (dry run)", "ignored (requires pruning)"}

\* the tasks of the operation
TasksOfOperation ==
    LET tasks == generateSyncTasks(resources, syncOp.selector)
    IN  {tasks[k] : k \in 1..Len(tasks)}

\* an operation with DryRun = true issues no ApplyResource call without
\* dryRun and no DeleteResource call, runs no hook and writes no history
C33_DryRunFrame ==
    (syncOp.hasSync /\ syncOp.dryRun) =>
        /\ \A c \in applyCalls : c[2]
        /\ deleteCalls = {}
        /\ opState.hooks = {}
        /\ history = <<>>
        /\ pc # "persist"
        /\ ~pass.dryRun => pass = NoPass

\* a validated dry-run operation ends with Succeeded and the dry-run message
C33_DryRunEnds ==
    DryRunValidated =>
        /\ opState.phase = "Succeeded"
        /\ opState.message = "successfully synced (dry run)"

DryRunPassValidated ==
    /\ syncOp.dryRun
    /\ AtDoApplyReturn
    /\ pass.dryRun
    /\ syncSuccessful

=============================================================================
